---- MODULE Spec2Model ----
(***************************************************************************)
(* Vault Recall: the TF-IDF index engine (embeddings/engine.ts), the       *)
(* vector math (tfidf.ts), the resurfacer and the plugin's event handling  *)
(* (main.ts), as a state machine.                                          *)
(*                                                                         *)
(* Numbers.  A TF value count/total is kept as the reduced fraction        *)
(* <<num, den>>; an IDF value ln(N/(1+df)) is kept as the reduced fraction *)
(* <<n, d>> of its argument, so two values are equal exactly when the      *)
(* floating-point computation of the code yields the same number.  Where   *)
(* the code compares magnitudes (score > 0, sim > 0.01, sorting) the       *)
(* values are evaluated in fixed point: ln in 1/100, similarity in 1/1000. *)
(***************************************************************************)
EXTENDS Integers, Sequences, FiniteSets, TLC

----------------------------------------------------------------------------
(* Universe of the model *)

\* Paths of markdown files; "f/c.md" lies in the folder "f".
Paths == {"a.md", "b.md", "f/c.md", "d.md", "e.md"}

Folders == {"f"}

\* file.path.startsWith(folder + '/')
InFolder(path, folder) ==
    /\ folder = "f"
    /\ path = "f/c.md"

NoPath == "-"

\* TFile objects: a file keeps its identity across a rename.
FileIds == 1 .. 4

\* Contents of a note, as the token sequence that
\* tokenize(getIndexableContent(file, content)) yields.
Contents ==
    { <<>>,
      <<"x">>,
      <<"x", "y">>,
      <<"y", "z", "z">> }

\* The terms of the notes, in a fixed order
Terms == << "x", "y", "z" >>

----------------------------------------------------------------------------
(* Arithmetic helpers *)

RECURSIVE Gcd(_, _)
Gcd(a, b) == IF b = 0 THEN a ELSE Gcd(b, a % b)

\* A fraction in lowest terms.
Frac(a, b) == <<a \div Gcd(a, b), b \div Gcd(a, b)>>

RECURSIVE SqrtSearch(_, _, _)
SqrtSearch(v, lo, hi) ==
    IF lo >= hi THEN lo
    ELSE LET mid == (lo + hi + 1) \div 2
         IN  IF mid * mid <= v THEN SqrtSearch(v, mid, hi)
             ELSE SqrtSearch(v, lo, mid - 1)

\* Math.sqrt, rounded down.
ISqrt(v) == SqrtSearch(v, 0, 46340)

\* 2*atanh(X) in 1/100, for X in 1/1000, by its series up to X^9.
AtanhSeries(X) ==
    LET X3 == (X * X * X) \div 1000000
        X5 == (X3 * X * X) \div 1000000
        X7 == (X5 * X * X) \div 1000000
        X9 == (X7 * X * X) \div 1000000
    IN  (2 * (X + X3 \div 3 + X5 \div 5 + X7 \div 7 + X9 \div 9) + 5) \div 10

\* Math.log(n/d) in 1/100, for n >= d: 2*atanh((n-d)/(n+d)).
LnCenti(n, d) == AtanhSeries(((n - d) * 1000) \div (n + d))

----------------------------------------------------------------------------
(* Insertion-ordered maps (JavaScript Map): sequences of <<key, value>> *)

EmptyMap == << >>

MapKeys(m) == { m[i][1] : i \in DOMAIN m }

MapKeySeq(m) == [ i \in DOMAIN m |-> m[i][1] ]

MapValues(m) == [ i \in DOMAIN m |-> m[i][2] ]

MapHas(m, k) == k \in MapKeys(m)

MapGet(m, k) == m[CHOOSE i \in DOMAIN m : m[i][1] = k][2]

\* Map.set: an existing key keeps its position, a new key goes last.
MapSet(m, k, v) ==
    IF MapHas(m, k)
    THEN [ i \in DOMAIN m |-> IF m[i][1] = k THEN <<k, v>> ELSE m[i] ]
    ELSE Append(m, <<k, v>>)

\* Map.delete
MapDelete(m, k) == SelectSeq(m, LAMBDA e : e[1] # k)

----------------------------------------------------------------------------
(* tfidf.ts *)

\* A text is the sequence of its characters, a token likewise.
\* STOP_WORDS
STOP_WORDS ==
    { <<"a">>, <<"a","n">>, <<"t","h","e">>, <<"a","n","d">>, <<"o","r">>, <<"b","u","t">>,
      <<"i","n">>, <<"o","n">>, <<"a","t">>, <<"t","o">>, <<"f","o","r">>, <<"o","f">>,
      <<"w","i","t","h">>, <<"b","y">>, <<"f","r","o","m">>, <<"i","s">>, <<"i","t">>,
      <<"i","t","s">>, <<"t","h","i","s">>, <<"t","h","a","t">>, <<"a","r","e">>,
      <<"w","a","s">>, <<"w","e","r","e">>, <<"b","e">>, <<"b","e","e","n">>,
      <<"b","e","i","n","g">>, <<"h","a","v","e">>, <<"h","a","s">>, <<"h","a","d">>,
      <<"d","o">>, <<"d","o","e","s">>, <<"d","i","d">>, <<"w","i","l","l">>,
      <<"w","o","u","l","d">>, <<"c","o","u","l","d">>, <<"s","h","o","u","l","d">>,
      <<"m","a","y">>, <<"m","i","g","h","t">>, <<"c","a","n">>, <<"s","h","a","l","l">>,
      <<"n","o","t">>, <<"n","o">>, <<"n","o","r">>, <<"s","o">>, <<"i","f">>,
      <<"t","h","e","n">>, <<"t","h","a","n">>, <<"t","o","o">>, <<"v","e","r","y">>,
      <<"j","u","s","t">>, <<"a","b","o","u","t">>, <<"a","b","o","v","e">>,
      <<"a","f","t","e","r">>, <<"a","g","a","i","n">>, <<"a","l","l">>, <<"a","l","s","o">>,
      <<"a","m">>, <<"a","n","y">>, <<"a","s">>, <<"b","e","c","a","u","s","e">>,
      <<"b","e","f","o","r","e">>, <<"b","e","t","w","e","e","n">>, <<"b","o","t","h">>,
      <<"e","a","c","h">>, <<"f","e","w">>, <<"g","e","t">>, <<"g","o","t">>, <<"h","e">>,
      <<"h","e","r">>, <<"h","e","r","e">>, <<"h","i","m">>, <<"h","i","s">>,
      <<"h","o","w">>, <<"i">>, <<"i","n","t","o">>, <<"l","i","k","e">>,
      <<"m","a","k","e">>, <<"m","e">>, <<"m","o","r","e">>, <<"m","o","s","t">>,
      <<"m","y">>, <<"n","e","w">>, <<"n","o","w">>, <<"o","n","l","y">>,
      <<"o","t","h","e","r">>, <<"o","u","r">>, <<"o","u","t">>, <<"o","v","e","r">>,
      <<"o","w","n">>, <<"s","a","m","e">>, <<"s","h","e">>, <<"s","o","m","e">>,
      <<"s","u","c","h">>, <<"u","p">>, <<"u","s">>, <<"w","e">>, <<"w","h","a","t">>,
      <<"w","h","e","n">>, <<"w","h","e","r","e">>, <<"w","h","i","c","h">>,
      <<"w","h","i","l","e">>, <<"w","h","o">>, <<"w","h","o","m">>, <<"w","h","y">>,
      <<"y","o","u">>, <<"y","o","u","r">>, <<"t","h","e","r","e">>, <<"t","h","e","y">>,
      <<"t","h","e","m">>, <<"t","h","e","i","r">>, <<"t","h","e","s","e">>,
      <<"t","h","o","s","e">>, <<"t","h","r","o","u","g","h">>, <<"u","n","d","e","r">>,
      <<"u","n","t","i","l">>, <<"w","e","l","l">>, <<"m","u","c","h">>, <<"m","a","n","y">>,
      <<"s","t","i","l","l">>, <<"e","v","e","n">>, <<"b","a","c","k">>, <<"d","o","w","n">> }

\* simpleStem's suffixes, in the order they are tried.
Suffixes ==
    << <<"t","i","o","n">>, <<"s","i","o","n">>, <<"m","e","n","t">>, <<"n","e","s","s">>,
       <<"i","b","l","e">>, <<"a","b","l","e">>, <<"f","u","l">>, <<"l","e","s","s">>,
       <<"o","u","s">>, <<"i","v","e">>, <<"i","n","g">>, <<"i","e","s">>, <<"i","e","d">>,
       <<"e","r","s">>, <<"e","s","t">>, <<"i","t","y">>, <<"a","l","y">>, <<"e","l","y">>,
       <<"i","z","e">>, <<"i","s","e">>, <<"i","f","y">>, <<"a","t","e">>, <<"e","n","t">>,
       <<"a","n","t">>, <<"a","r","y">>, <<"e","r","y">>, <<"o","r","y">>, <<"l","y">>,
       <<"e","d">>, <<"e","r">>, <<"e","s">>, <<"a","l">>, <<"e","n">> >>

EndsWith(word, suffix) ==
    /\ Len(word) >= Len(suffix)
    /\ SubSeq(word, Len(word) - Len(suffix) + 1, Len(word)) = suffix

\* simpleStem(word)
simpleStem(word) ==
    IF Len(word) <= 4 THEN word
    ELSE IF \E i \in DOMAIN Suffixes :
                EndsWith(word, Suffixes[i]) /\ Len(word) - Len(Suffixes[i]) >= 3
         THEN LET i == CHOOSE k \in DOMAIN Suffixes :
                         /\ EndsWith(word, Suffixes[k]) /\ Len(word) - Len(Suffixes[k]) >= 3
                         /\ \A j \in 1 .. (k - 1) :
                              ~ (EndsWith(word, Suffixes[j]) /\ Len(word) - Len(Suffixes[j]) >= 3)
              IN  SubSeq(word, 1, Len(word) - Len(Suffixes[i]))
         ELSE IF EndsWith(word, <<"s">>) /\ ~ EndsWith(word, <<"s","s">>) /\ Len(word) > 3
              THEN SubSeq(word, 1, Len(word) - 1)
              ELSE word

\* text.split(/\s+/) of a text whose only white space is " ", without the
\* empty strings (the filter of tokenize drops them).
SplitWords(text) ==
    LET split[i \in 0 .. Len(text)] ==
            \* the words of text[1..i]; the last one is still open
            IF i = 0 THEN << << >> >>
            ELSE LET words == split[i - 1]
                 IN  IF text[i] = " "
                     THEN IF words[Len(words)] = << >> THEN words ELSE Append(words, << >>)
                     ELSE [ words EXCEPT ![Len(words)] = Append(@, text[i]) ]
    IN  SelectSeq(split[Len(text)], LAMBDA word : word # << >>)

\* tokenize(text): lower case, every character that is not a letter, a
\* digit, "_" or white space becomes a space, every digit becomes a space (a
\* run of digits becomes one space, which splits alike), split, filter, stem.
tokenize(text) ==
    LET upper == << "A","B","C","D","E","F","G","H","I","J","K","L","M","N","O","P","Q","R","S","T","U","V","W","X","Y","Z" >>
        lower == << "a","b","c","d","e","f","g","h","i","j","k","l","m","n","o","p","q","r","s","t","u","v","w","x","y","z" >>
        digits == { "0","1","2","3","4","5","6","7","8","9" }
        toLowerCase(c) == IF \E i \in DOMAIN upper : upper[i] = c
                          THEN lower[CHOOSE i \in DOMAIN upper : upper[i] = c] ELSE c
        isLetter(c) == \E i \in DOMAIN lower : lower[i] = c
        clean(c) == IF isLetter(toLowerCase(c)) \/ c = "_" THEN toLowerCase(c) ELSE " "
        kept == SelectSeq(SplitWords([ i \in DOMAIN text |-> clean(text[i]) ]),
                          LAMBDA token : Len(token) > 2 /\ token \notin STOP_WORDS)
    IN  [ i \in DOMAIN kept |-> simpleStem(kept[i]) ]

\* tokens.join(' ')
JoinTokens(tokens) ==
    LET joined[i \in 0 .. Len(tokens)] ==
            IF i = 0 THEN << >>
            ELSE IF i = 1 THEN tokens[1]
            ELSE joined[i - 1] \o << " " >> \o tokens[i]
    IN  joined[Len(tokens)]

TokenCount(tokens, t) == Cardinality({ i \in DOMAIN tokens : tokens[i] = t })

\* computeTF: count / total per term; no tokens give the empty map.
computeTF(tokens) ==
    [ t \in { tokens[i] : i \in DOMAIN tokens } |->
        Frac(TokenCount(tokens, t), Len(tokens)) ]

DocFreq(documents, t) ==
    Cardinality({ i \in DOMAIN documents : t \in DOMAIN documents[i] })

\* computeIDF: ln(N / (1 + df)) for every term of some document.
computeIDF(documents) ==
    LET N == Len(documents)
    IN  [ t \in UNION { DOMAIN documents[i] : i \in DOMAIN documents } |->
            Frac(N, 1 + DocFreq(documents, t)) ]

\* idf.get(term) ?? 0 : ln(1/1) = 0
IdfOrZero(idf, t) == IF t \in DOMAIN idf THEN idf[t] ELSE <<1, 1>>

\* A computeTFIDF that tests score >= 0.
ScorePositive_OrZero(tfValue, idfValue) == idfValue[1] >= idfValue[2]

\* tfValue * idfValue > 0 : tf is positive, so the sign is that of ln(n/d).
ScorePositive(tfValue, idfValue) == idfValue[1] > idfValue[2]

\* computeTFIDF: the entries of strictly positive score.
computeTFIDF(tf, idf) ==
    [ t \in { u \in DOMAIN tf : ScorePositive(tf[u], IdfOrZero(idf, u)) } |->
        [ tf |-> tf[t], idf |-> idf[t] ] ]

\* A stored score in fixed point; 6 is a common multiple of the token totals.
Weight(e) == (e.tf[1] * (6 \div e.tf[2])) * LnCenti(e.idf[1], e.idf[2])

RECURSIVE SumOver(_, _)
SumOver(S, f) ==
    IF S = {} THEN 0
    ELSE LET x == CHOOSE y \in S : TRUE
         IN  f[x] + SumOver(S \ {x}, f)

\* dot / denominator in 1/1000, 0 when the denominator is 0.
Quotient(dot, denominator) ==
    IF denominator = 0 THEN 0 ELSE (dot * 1000) \div denominator

\* cosineSimilarity in 1/1000: dot / (sqrt(normA) * sqrt(normB)), 0 when the
\* denominator is 0.
cosineSimilarity(vecA, vecB) ==
    LET shared == DOMAIN vecA \cap DOMAIN vecB
        dot    == SumOver(shared, [ t \in shared |-> Weight(vecA[t]) * Weight(vecB[t]) ])
        normA  == SumOver(DOMAIN vecA, [ t \in DOMAIN vecA |-> Weight(vecA[t]) * Weight(vecA[t]) ])
        normB  == SumOver(DOMAIN vecB, [ t \in DOMAIN vecB |-> Weight(vecB[t]) * Weight(vecB[t]) ])
    IN  Quotient(dot, ISqrt(normA) * ISqrt(normB))

----------------------------------------------------------------------------
(* State *)

VARIABLES
    vault,          \* FileIds -> [exists, path, content, age]: the host's files
    engine,         \* EmbeddingEngine: tfMaps, idf, tfidfVectors, indexReady, excludedFolders
    settings,       \* plugin.settings: excludedFolders, minDaysOld
    resurfacer,     \* SmartResurfacer: minDaysOld
    pendingIndexFiles,   \* plugin.pendingIndexFiles, in insertion order
    indexDebounceTimer,  \* TRUE while a setTimeout of debouncedIndexNote is pending
    tasks,          \* suspended async calls, each at one await
    disk,           \* index.json: NoSnapshot or the written snapshot
    hist,           \* history: of this engine (built, loaded), of the timer (burst)
    lastOp,         \* the operation the last step completed, with its result
    budget,         \* events, commands, restarts and queries still allowed
    licenseManager  \* LicenseManager: status

vars == << vault, engine, settings, resurfacer, pendingIndexFiles, indexDebounceTimer,
           tasks, disk, hist, lastOp, budget, licenseManager >>

\* Bounds of the exploration
MaxEvents == 1

MaxCommands == 1

MaxRestarts == 1

MaxTasks == 2

\* Events of the runs that only edit and rename notes
MaxEdits == 2

\* Events of the runs with queries
MaxQueryEvents == 1

\* Queries of the views in a run of SpecQuery
MaxQueries == 1

\* Events of the runs that start with a found index.json
MaxLoadEvents == 1

\* Vault events and slider changes of a run of SpecSettings
MaxSettingsEvents == 1

MaxSettingsChanges == 1

\* Vault events of a run of SpecDigest
MaxDigestEvents == 1

\* Vault events of a run of SpecStale
MaxStaleEvents == 1

\* DEFAULT_SETTINGS.minDaysOld
DefaultMinDaysOld == 7

\* JSON values as far as loadIndex tells them apart: an object with its
\* entries, a number (it has no entries), null and undefined.
JObject(entries) == [ type |-> "object", entries |-> entries ]

JNumber == [ type |-> "number", entries |-> << >> ]

JNull == [ type |-> "null", entries |-> << >> ]

JUndefined == [ type |-> "undefined", entries |-> << >> ]

\* Object.entries(value) throws a TypeError.
EntriesThrow(value) == value.type \in {"null", "undefined"}

\* Object.entries(value)
ObjectEntries(value) == value.entries

\* index.json: "missing", "unreadable" (adapter.read rejects), "invalid"
\* (JSON.parse throws) or "data", a JSON value whose properties tfMaps and idf
\* are the given values.
Snapshot(kind, tfMaps, idf) == [ kind |-> kind, tfMaps |-> tfMaps, idf |-> idf ]

NoSnapshot == Snapshot("missing", JUndefined, JUndefined)

NoFile == 0

\* Days since file.stat.mtime of the notes present at the start, and of a
\* note that was just written.
OldAge(f) == IF f % 2 = 1 THEN 40 ELSE 10

FreshAge == 0

----------------------------------------------------------------------------
(* The vault (obsidian App) *)

\* vault.getAbstractFileByPath(path): the TFile at that path, or null.
getAbstractFileByPath(v, path) ==
    IF \E f \in FileIds : v[f].exists /\ v[f].path = path
    THEN CHOOSE f \in FileIds : v[f].exists /\ v[f].path = path
    ELSE NoFile

RECURSIVE SetToSeq(_)
\* The members of a set of numbers, ascending.
SetToSeq(S) ==
    IF S = {} THEN << >>
    ELSE LET m == CHOOSE x \in S : \A y \in S : x <= y
         IN  <<m>> \o SetToSeq(S \ {m})

\* vault.getMarkdownFiles()
AllMarkdownFiles(v) == SetToSeq({ f \in FileIds : v[f].exists })

----------------------------------------------------------------------------
(* EmbeddingEngine (embeddings/engine.ts) *)

\* new EmbeddingEngine(app, excludedFolders, indexDir)
NewEngine(excludedFolders) ==
    [ tfMaps          |-> EmptyMap,
      idf             |-> << >>,
      tfidfVectors    |-> EmptyMap,
      indexReady      |-> FALSE,
      excludedFolders |-> excludedFolders ]

isReady(e) == e.indexReady

setExcludedFolders(e, folders) == [ e EXCEPT !.excludedFolders = folders ]

\* getMarkdownFiles: the markdown files outside every excluded folder.
getMarkdownFiles(e, v) ==
    SelectSeq(AllMarkdownFiles(v),
              LAMBDA f : ~ \E folder \in e.excludedFolders : InFolder(v[f].path, folder))

\* indexVault, steps 2 and 3 and the ready flag (engine.ts 72-82).
indexVaultFinish(e) ==
    LET newIdf == computeIDF(MapValues(e.tfMaps))
    IN  [ e EXCEPT
            !.idf = newIdf,
            !.tfidfVectors =
                [ i \in DOMAIN e.tfMaps |->
                    << e.tfMaps[i][1], computeTFIDF(e.tfMaps[i][2], newIdf) >> ],
            !.indexReady = TRUE ]

\* Variant: an indexVault over no files that marks the index ready.
indexVaultEmpty_Ready(e) == [ e EXCEPT !.indexReady = TRUE ]

\* Variant: an indexVault that clears tfMaps before it looks at the files.
indexVaultEmpty_Clears(e) == [ e EXCEPT !.tfMaps = EmptyMap ]

\* Variant: an indexVault over no files that resets the ready flag.
indexVaultEmpty_Reset(e) == [ e EXCEPT !.indexReady = FALSE ]

\* indexVault with files.length === 0: a Notice, nothing else.
indexVaultEmpty(e) == e

\* indexVault, step 1 before the first read: this.tfMaps.clear()
indexVaultClear(e) == [ e EXCEPT !.tfMaps = EmptyMap ]

\* indexVault, one turn of the loop after its read: tfMaps.set(file.path, tf)
indexVaultSet(e, path, content) ==
    [ e EXCEPT !.tfMaps = MapSet(@, path, computeTF(content)) ]

\* Variant: an indexNote that keeps the old idf table.
indexNoteApply_StaleIdf(e, path, content) ==
    [ e EXCEPT
        !.tfMaps = MapSet(@, path, computeTF(content)),
        !.tfidfVectors = MapSet(@, path, computeTFIDF(computeTF(content), e.idf)) ]

\* indexNote after its read (engine.ts 94-103).
indexNoteApply(e, path, content) ==
    LET tf     == computeTF(content)
        maps   == MapSet(e.tfMaps, path, tf)
        newIdf == computeIDF(MapValues(maps))
    IN  [ e EXCEPT
            !.tfMaps = maps,
            !.idf = newIdf,
            !.tfidfVectors = MapSet(@, path, computeTFIDF(tf, newIdf)) ]

\* Variant: an indexNote without its guard.
indexNoteRuns_Always(e) == TRUE

\* indexNote's guard: if (!this.indexReady) return
indexNoteRuns(e) == e.indexReady

\* Variant: a removeNote that leaves the TF-IDF vector behind.
removeNote_KeepsVector(e, path) == [ e EXCEPT !.tfMaps = MapDelete(@, path) ]

removeNote(e, path) ==
    [ e EXCEPT
        !.tfMaps = MapDelete(@, path),
        !.tfidfVectors = MapDelete(@, path) ]

\* Object.fromEntries(map) of a map of terms, as JSON.stringify writes it:
\* the entries <<term, value>>.  The insertion order of a map of terms is not
\* kept by the model; the entries are written in the order of Terms.
ObjectFromEntries(map) ==
    LET keys == SelectSeq(Terms, LAMBDA t : t \in DOMAIN map)
    IN  [ i \in DOMAIN keys |-> << keys[i], map[keys[i]] >> ]

\* new Map(Object.entries(object)); of two entries of one key the last stands.
MapOfEntries(object) ==
    [ t \in { object[i][1] : i \in DOMAIN object } |->
        object[CHOOSE i \in DOMAIN object :
                 /\ object[i][1] = t
                 /\ \A j \in DOMAIN object : object[j][1] = t => j <= i][2] ]

\* saveIndex: the NoteIndex that is stringified (lastIndexed left out).
saveIndexData(e) ==
    Snapshot("data",
             JObject([ i \in DOMAIN e.tfMaps |->
                         << e.tfMaps[i][1], JObject(ObjectFromEntries(e.tfMaps[i][2])) >> ]),
             JObject(ObjectFromEntries(e.idf)))

\* loadIndex's first loop (engine.ts 223-225): how many entries of
\* data.tfMaps it restores before Object.entries(tf) throws.
RestoredCount(entries) ==
    Cardinality({ i \in DOMAIN entries : \A j \in 1 .. i : ~ EntriesThrow(entries[j][2]) })

\* this.tfMaps after that loop.
restoredTfMaps(d) ==
    [ i \in 1 .. RestoredCount(ObjectEntries(d.tfMaps)) |->
        << ObjectEntries(d.tfMaps)[i][1],
           MapOfEntries(ObjectEntries(ObjectEntries(d.tfMaps)[i][2])) >> ]

\* loadIndex returns true for this file: it exists, is read and parsed, and
\* no Object.entries throws.
loadIndexOk(d) ==
    /\ d.kind = "data"
    /\ ~ EntriesThrow(d.tfMaps)
    /\ RestoredCount(ObjectEntries(d.tfMaps)) = Len(ObjectEntries(d.tfMaps))
    /\ ~ EntriesThrow(d.idf)

\* Variant: a loadIndex that does not restore the idf table.
loadIndexApply_NoIdf(e, d) ==
    [ e EXCEPT
        !.tfMaps = restoredTfMaps(d),
        !.tfidfVectors =
            [ i \in DOMAIN restoredTfMaps(d) |->
                << restoredTfMaps(d)[i][1], computeTFIDF(restoredTfMaps(d)[i][2], e.idf) >> ],
        !.indexReady = TRUE ]

\* loadIndex when it returns true (engine.ts 221-237).
loadIndexApply(e, d) ==
    [ e EXCEPT
        !.tfMaps = restoredTfMaps(d),
        !.idf = MapOfEntries(ObjectEntries(d.idf)),
        !.tfidfVectors =
            [ i \in DOMAIN restoredTfMaps(d) |->
                << restoredTfMaps(d)[i][1],
                   computeTFIDF(restoredTfMaps(d)[i][2], MapOfEntries(ObjectEntries(d.idf))) >> ],
        !.indexReady = TRUE ]

\* loadIndex when it returns false: before the file is parsed nothing is
\* touched; after, tfMaps has been cleared and holds what was restored when
\* Object.entries threw.
loadIndexFail(e, d) ==
    IF d.kind # "data" THEN e
    ELSE IF EntriesThrow(d.tfMaps) THEN [ e EXCEPT !.tfMaps = EmptyMap ]
    ELSE [ e EXCEPT !.tfMaps = restoredTfMaps(d) ]

\* The noise floor of findSimilar, 0.01, in 1/1000.
NoiseFloor == 10

Min(a, b) == IF a <= b THEN a ELSE b

Max(a, b) == IF a >= b THEN a ELSE b

\* Array.prototype.sort((a, b) => key(b) - key(a)), keys[i] being the key
\* of s[i]: descending and stable.
SortDescending(s, keys) ==
    LET rank(i) == Cardinality({ j \in DOMAIN s : keys[j] > keys[i] })
                   + Cardinality({ j \in DOMAIN s : j < i /\ keys[j] = keys[i] }) + 1
    IN  [ r \in DOMAIN s |-> s[CHOOSE i \in DOMAIN s : rank(i) = r] ]

\* Variant: the scores array without the skip of the queried note.
similarScores_KeepSelf(e, path) ==
    LET sourceVector == MapGet(e.tfidfVectors, path)
        all == [ i \in DOMAIN e.tfidfVectors |->
                   [ path |-> e.tfidfVectors[i][1],
                     similarity |-> cosineSimilarity(sourceVector, e.tfidfVectors[i][2]) ] ]
    IN  SelectSeq(all, LAMBDA sc : sc.similarity > NoiseFloor)

\* findSimilar, the scores array before sorting (engine.ts 123-131).
similarScores(e, path) ==
    LET sourceVector == MapGet(e.tfidfVectors, path)
        all == [ i \in DOMAIN e.tfidfVectors |->
                   [ path |-> e.tfidfVectors[i][1],
                     similarity |-> cosineSimilarity(sourceVector, e.tfidfVectors[i][2]) ] ]
    IN  SelectSeq(all, LAMBDA sc : sc.path # path /\ sc.similarity > NoiseFloor)

\* scores.sort((a, b) => b.similarity - a.similarity)
SortBySimilarity(s) == SortDescending(s, [ i \in DOMAIN s |-> s[i].similarity ])

\* Array.prototype.slice(0, n)
Slice(s, n) == SubSeq(s, 1, Min(n, Len(s)))

\* findSimilar's map to { file, similarity } and its filter of the paths
\* that are no file (engine.ts 138-140).
SimilarNotes(v, sliced) ==
    LET found == SelectSeq(sliced, LAMBDA sc : getAbstractFileByPath(v, sc.path) # NoFile)
    IN  [ i \in DOMAIN found |->
            [ file |-> getAbstractFileByPath(v, found[i].path),
              similarity |-> found[i].similarity ] ]

\* findSimilar(file, topK) for the TFile f.
findSimilar(e, v, f, topK) ==
    IF ~ e.indexReady THEN << >>
    ELSE IF ~ MapHas(e.tfidfVectors, v[f].path) THEN << >>
    ELSE SimilarNotes(v, Slice(SortBySimilarity(similarScores(e, v[f].path)), topK))

----------------------------------------------------------------------------
(* resurfacer/scoring.ts: scores in 1/1000 *)

\* relevanceScore: clamp to [0, 1].
relevanceScore(similarity) == Min(Max(similarity, 0), 1000)

\* e^(-days/20) in 1/10000, as the days-th power of e^(-1/20) = 0.9512.
RECURSIVE ExpDecay(_)
ExpDecay(days) == IF days = 0 THEN 10000 ELSE (ExpDecay(days - 1) * 9512) \div 10000

\* timeDecayScore: 1 - e^(-days/20), for a note modified `days` days ago.
timeDecayScore(days) == (10000 - ExpDecay(days)) \div 10

orphanBoost(backlinkCount) ==
    IF backlinkCount = 0 THEN 1000
    ELSE IF backlinkCount = 1 THEN 500
    ELSE IF backlinkCount <= 3 THEN 200
    ELSE 0

\* metadataCache.resolvedLinks: how many notes link to the TFile f.
getBacklinkCount(f) == CASE f = 1 -> 0 [] f = 2 -> 1 [] f = 3 -> 2 [] OTHER -> 4

\* compositeScore with the default weights 0.5, 0.35, 0.15; in 1/1000000.
compositeScore(relevance, decay, orphan) ==
    relevance * 500 + decay * 350 + orphan * 150

----------------------------------------------------------------------------
(* resurfacer/resurfacer.ts *)

getDaysSinceModified(v, f) == v[f].age

\* sort((a, b) => b.stat.mtime - a.stat.mtime): the youngest first
SortNewestFirst(s) == SortDescending(s, [ i \in DOMAIN s |-> 0 - s[i].age ])

\* getRecentlyModifiedFiles(withinDays): newest first, at most 10.
getRecentlyModifiedFiles(v, withinDays) ==
    LET files  == AllMarkdownFiles(v)
        recent == SelectSeq([ i \in DOMAIN files |-> [ file |-> files[i], age |-> v[files[i]].age ] ],
                            LAMBDA x : x.age < withinDays)
        sorted == SortNewestFirst(recent)
    IN  [ i \in 1 .. Min(10, Len(sorted)) |-> sorted[i].file ]

\* scored.sort((a, b) => b.score - a.score)
SortByScore(s) == SortDescending(s, [ i \in DOMAIN s |-> s[i].score ])

\* new SmartResurfacer(app, engine, minDaysOld)
NewResurfacer(minDaysOld) == [ minDaysOld |-> minDaysOld ]

\* Variant: a fallback that does not skip the notes younger than minDaysOld.
getForgottenNotes_AnyAge(r, v, count) ==
    LET files  == AllMarkdownFiles(v)
        scored == [ i \in DOMAIN files |->
                     LET f      == files[i]
                         decay  == timeDecayScore(v[f].age)
                         orphan == orphanBoost(getBacklinkCount(f))
                     IN  [ file |-> f,
                           score |-> compositeScore(300, decay, orphan),
                           reason |-> IF orphan > 500 THEN "unlinked" ELSE "not modified in days",
                           daysSinceModified |-> v[f].age ] ]
    IN  Slice(SortByScore(scored), count)

\* getForgottenNotes(count): the fallback of the digest.
getForgottenNotes(r, v, count) ==
    LET files == SelectSeq(AllMarkdownFiles(v),
                           LAMBDA f : ~ (getDaysSinceModified(v, f) < r.minDaysOld))
        scored == [ i \in DOMAIN files |->
                     LET f      == files[i]
                         decay  == timeDecayScore(v[f].age)
                         orphan == orphanBoost(getBacklinkCount(f))
                     IN  [ file |-> f,
                           score |-> compositeScore(300, decay, orphan),
                           reason |-> IF orphan > 500 THEN "unlinked" ELSE "not modified in days",
                           daysSinceModified |-> v[f].age ] ]
    IN  Slice(SortByScore(scored), count)

\* Variant: a candidateMap that keeps the first similarity found for a note.
AddSimilar_KeepFirst(r, v, map, similar) ==
    LET added[i \in 0 .. Len(similar)] ==
            IF i = 0 THEN map
            ELSE LET sn   == similar[i]
                     path == v[sn.file].path
                     m    == added[i - 1]
                 IN  IF getDaysSinceModified(v, sn.file) < r.minDaysOld THEN m
                     ELSE IF ~ MapHas(m, path)
                          THEN MapSet(m, path, [ file |-> sn.file, maxSimilarity |-> sn.similarity ])
                          ELSE m
    IN  added[Len(similar)]

\* The candidateMap of getDailyDigest after the anchors recent[1..n]: path ->
\* [file, maxSimilarity], in insertion order.
AddSimilar(r, v, map, similar) ==
    LET added[i \in 0 .. Len(similar)] ==
            IF i = 0 THEN map
            ELSE LET sn   == similar[i]
                     path == v[sn.file].path
                     m    == added[i - 1]
                 IN  IF getDaysSinceModified(v, sn.file) < r.minDaysOld THEN m
                     ELSE IF ~ MapHas(m, path) \/ sn.similarity > MapGet(m, path).maxSimilarity
                          THEN MapSet(m, path, [ file |-> sn.file, maxSimilarity |-> sn.similarity ])
                          ELSE m
    IN  added[Len(similar)]

candidateMap(r, e, v, recent, n) ==
    LET after[k \in 0 .. n] ==
            IF k = 0 THEN EmptyMap
            ELSE AddSimilar(r, v, after[k - 1], findSimilar(e, v, recent[k], 20))
    IN  after[n]

digestReason(rel, decay, orphan) ==
    IF rel > 300 THEN "related to recent work"
    ELSE IF decay > 800 THEN "written long ago"
    ELSE IF orphan > 500 THEN "unlinked"
    ELSE "forgotten note"

\* One scored note of the digest (resurfacer.ts 150-170).
scoredNote(v, file, rel, decay, orphan) ==
    [ file |-> file,
      score |-> compositeScore(rel, decay, orphan),
      reason |-> digestReason(rel, decay, orphan),
      daysSinceModified |-> v[file].age ]

\* The digest's scored array before sorting.
scoredCandidates(v, cands) ==
    [ i \in DOMAIN cands |->
        scoredNote(v, cands[i][2].file,
                   relevanceScore(cands[i][2].maxSimilarity),
                   timeDecayScore(v[cands[i][2].file].age),
                   orphanBoost(getBacklinkCount(cands[i][2].file))) ]

\* getDailyDigest(count) past its isReady guard (resurfacer.ts 119-179).
digestOfReadyEngine(r, e, v, count) ==
    LET recentFiles == getRecentlyModifiedFiles(v, 3)
    IN  IF Len(recentFiles) = 0 THEN getForgottenNotes(r, v, count)
        ELSE Slice(SortByScore(
                     scoredCandidates(v, candidateMap(r, e, v, recentFiles, Len(recentFiles)))),
                   count)

\* Variant: a digest without the isReady guard.
getDailyDigest_Unguarded(r, e, v, count) == digestOfReadyEngine(r, e, v, count)

\* getDailyDigest(count)
getDailyDigest(r, e, v, count) ==
    IF ~ isReady(e) THEN << >> ELSE digestOfReadyEngine(r, e, v, count)

\* getContextualSuggestions(currentFile, count)
getContextualSuggestions(r, e, v, f, count) ==
    IF ~ isReady(e) THEN << >>
    ELSE Slice(SelectSeq(findSimilar(e, v, f, count * 3),
                         LAMBDA sn : getDaysSinceModified(v, sn.file) >= r.minDaysOld),
               count)

----------------------------------------------------------------------------
(* Suspended async calls.  A task is one call of initializeIndex,          *)
(* reindexVault, saveSettingsAndReindex or of the debounce timer callback, *)
(* suspended at an await:                                                  *)
(*   "load"     loadIndex, at adapter.exists / adapter.read                *)
(*   "saveData" saveSettingsAndReindex, at saveData                        *)
(*   "read"     indexVault, at cachedRead of files[i]                      *)
(*   "write"    saveIndex, at adapter.exists / mkdir / write               *)
(*   "noteRead" indexNote, at cachedRead of file f                         *)

\* What a snapshot was made of: the tfMaps and the idf table of the engine
\* when saveIndex built its data.
SavedOf(e) == [ tfMaps |-> e.tfMaps, idf |-> e.idf ]

NoSaved == [ tfMaps |-> EmptyMap, idf |-> << >> ]

Task(kind, pc) ==
    [ kind |-> kind, pc |-> pc, files |-> << >>, i |-> 0, f |-> NoFile,
      content |-> << >>, json |-> NoSnapshot, saved |-> NoSaved, next |-> 0,
      calls |-> << >> ]

RemoveAt(s, k) == [ j \in 1 .. (Len(s) - 1) |-> IF j < k THEN s[j] ELSE s[j + 1] ]

\* `await this.engine.saveIndex()` up to its first await: the data is built
\* from the engine as it is now, the write comes later.
CallSaveIndex(kind, e) ==
    [ Task(kind, "write") EXCEPT !.json = saveIndexData(e), !.saved = SavedOf(e) ]

\* indexVault up to its first await, and what its caller does next when it
\* returns at once.  Result: the engine and the suspended task.
CallIndexVault(kind, e, v) ==
    LET files == getMarkdownFiles(e, v)
    IN  IF Len(files) = 0
        THEN [ engine |-> indexVaultEmpty(e),
               task   |-> CallSaveIndex(kind, indexVaultEmpty(e)),
               op     |-> "indexVaultEmpty" ]
        ELSE [ engine |-> indexVaultClear(e),
               task   |-> [ Task(kind, "read") EXCEPT
                              !.files = files, !.i = 1,
                              !.content = v[files[1]].content ],
               op     |-> "indexVaultStart" ]

\* indexVault resumed with the content of files[i].  The next read is issued
\* (it rejects for a file deleted meanwhile, and indexVault with it), or the
\* index is finished and the caller goes on to saveIndex.
ResumeIndexVault(t, e, v) ==
    LET e1 == indexVaultSet(e, v[t.files[t.i]].path, t.content)
    IN  IF t.i < Len(t.files)
        THEN IF v[t.files[t.i + 1]].exists
             THEN [ engine |-> e1,
                    task   |-> << [ t EXCEPT !.i = t.i + 1,
                                             !.content = v[t.files[t.i + 1]].content ] >>,
                    op     |-> "indexVaultStep" ]
             ELSE [ engine |-> e1, task |-> << >>, op |-> "indexVaultThrew" ]
        ELSE [ engine |-> indexVaultFinish(e1),
               task   |-> << CallSaveIndex(t.kind, indexVaultFinish(e1)) >>,
               op     |-> "indexVaultDone" ]

\* The loop of the timer callback from entry `from` of the pending set on,
\* up to the next await.  Entries whose path is no file are skipped; with the
\* engine not ready every indexNote returns at once.  Result: the entry the
\* callback is suspended at (0: the loop has ended) and the indexNote calls made.
RECURSIVE RunPendingLoop(_, _, _, _, _)
RunPendingLoop(e, v, pend, from, calls) ==
    IF from > Len(pend) THEN [ at |-> 0, calls |-> calls ]
    ELSE IF getAbstractFileByPath(v, pend[from]) = NoFile
         THEN RunPendingLoop(e, v, pend, from + 1, calls)
         ELSE IF indexNoteRuns(e)
              THEN [ at |-> from, calls |-> Append(calls, pend[from]) ]
              ELSE RunPendingLoop(e, v, pend, from + 1, Append(calls, pend[from]))

\* pendingIndexFiles.add(path)
PendingAdd(pend, path) ==
    IF \E j \in DOMAIN pend : pend[j] = path THEN pend ELSE Append(pend, path)

\* pendingIndexFiles.clear(): every live iterator of the set restarts on
\* what is added afterwards.
ClearedIterators(ts) ==
    [ j \in DOMAIN ts |-> IF ts[j].kind = "timer" THEN [ ts[j] EXCEPT !.next = 1 ] ELSE ts[j] ]

Op(name, arg, ret) == [ op |-> name, arg |-> arg, ret |-> ret ]

\* built, loaded: what has made this engine ready; burst: the notes with a
\* change event since the debounce timer last fired.
\* saved: what the snapshot on disk was made of.
\* renamed: the rename events this engine received while ready, as
\* [file, from].
\* deleted: the paths whose delete event this engine handled, with no
\* change event for the path since.
\* revoked: the last answer of the license API was that the key is not valid.
NewHist ==
    [ built |-> FALSE, loaded |-> FALSE, burst |-> {}, saved |-> NoSaved, renamed |-> {},
      deleted |-> {}, revoked |-> FALSE ]

----------------------------------------------------------------------------
(* License (license.ts) *)

\* Days a cached status is trusted without asking the API (24 hours)
CACHE_DURATION_MS == 1

\* Days since lastChecked above which the age of a status is not told apart
MaxCacheAge == 2

\* A LicenseStatus; age is the number of days since lastChecked.
LicenseStatus(valid, tier, age) == [ valid |-> valid, tier |-> tier, age |-> age ]

\* settings.licenseStatus = null, and the cachedStatus that was not passed
NullStatus == LicenseStatus(FALSE, "null", 0)

\* settings.licenseKey = '', and validate(undefined)
NoKey == ""

\* Keys the user enters (trimmed, not empty)
LicenseKeys == {"K1"}

\* What requestUrl gives validateWithAPI: reached = FALSE when it throws.
ApiResponse(reached, status, success, refunded, chargebacked) ==
    [ reached |-> reached, status |-> status, success |-> success,
      refunded |-> refunded, chargebacked |-> chargebacked ]

Unreachable == ApiResponse(FALSE, 0, FALSE, FALSE, FALSE)

ApiResponses ==
    { Unreachable,
      ApiResponse(TRUE, 200, TRUE, FALSE, FALSE),
      ApiResponse(TRUE, 200, FALSE, FALSE, FALSE),
      ApiResponse(TRUE, 200, TRUE, TRUE, FALSE),
      ApiResponse(TRUE, 200, TRUE, FALSE, TRUE),
      ApiResponse(TRUE, 500, FALSE, FALSE, FALSE) }

\* validateWithAPI once requestUrl has answered.
validateWithAPI(response) ==
    IF /\ response.status = 200
       /\ response.success /\ ~ response.refunded /\ ~ response.chargebacked
    THEN LicenseStatus(TRUE, "pro", 0)
    ELSE LicenseStatus(FALSE, "free", 0)

\* validate asks the API: there is a key and no fresh valid cached status.
AsksApi(key, cachedStatus) ==
    /\ key # NoKey
    /\ ~ (cachedStatus.valid /\ cachedStatus.age < CACHE_DURATION_MS)

\* validate(key, cachedStatus): the status it assigns and returns.
validate(key, cachedStatus, response) ==
    IF key = NoKey THEN LicenseStatus(FALSE, "free", 0)
    ELSE IF cachedStatus.valid /\ cachedStatus.age < CACHE_DURATION_MS THEN cachedStatus
    ELSE IF response.reached THEN validateWithAPI(response)
    ELSE IF cachedStatus.valid THEN cachedStatus
    ELSE LicenseStatus(FALSE, "free", 0)

isPro(manager) == manager.status.valid /\ manager.status.tier = "pro"

\* The history of the API's answers after this call of validate.
RevokedAfter(revoked, key, cachedStatus, response) ==
    IF AsksApi(key, cachedStatus) /\ response.reached
    THEN ~ validateWithAPI(response).valid
    ELSE revoked

\* A stored status `elapsed` days later.
AgedStatus(status, elapsed) ==
    IF status = NullStatus THEN status
    ELSE [ status EXCEPT !.age = IF @ + elapsed > MaxCacheAge THEN MaxCacheAge ELSE @ + elapsed ]

\* Days between the unload and the next onload
ElapsedDays == {0, 1}

----------------------------------------------------------------------------
(* Initial state: the plugin has just been loaded for the first time       *)
(* (onload), and initializeIndex has called loadIndex.                     *)

InitialPath(f) == CASE f = 1 -> "f/c.md" [] f = 2 -> "a.md" [] f = 3 -> "b.md" [] OTHER -> "d.md"

InitialContent(f) ==
    CASE f = 1 -> <<"y", "z", "z">> [] f = 2 -> <<"x", "y">> [] f = 3 -> <<"x">> [] OTHER -> << >>

\* What an edit leaves in a note
Edits == { <<"x">>, <<"x", "y">> }

AbsentFile == [ exists |-> FALSE, path |-> NoPath, content |-> << >>, age |-> FreshAge ]

\* Number of notes in the vault at the start
InitialCounts == {0, 1, 4}

\* The plugin and the vault after onload, whatever index.json holds; ages[f]
\* is the number of days since note f was modified.
StartedWith(ages) ==
    /\ \E n \in InitialCounts :
         vault = [ f \in FileIds |->
                     IF f <= n
                     THEN [ exists |-> TRUE, path |-> InitialPath(f),
                            content |-> InitialContent(f), age |-> ages[f] ]
                     ELSE AbsentFile ]
    /\ settings = [ excludedFolders |-> {}, minDaysOld |-> DefaultMinDaysOld,
                    licenseKey |-> NoKey, licenseStatus |-> NullStatus ]
    /\ licenseManager = [ status |-> validate(NoKey, NullStatus, Unreachable) ]
    /\ engine = NewEngine({})
    /\ resurfacer = NewResurfacer(DefaultMinDaysOld)
    /\ pendingIndexFiles = << >>
    /\ indexDebounceTimer = FALSE
    /\ tasks = << Task("init", "load") >>
    /\ hist = NewHist
    /\ lastOp = Op("onload", << >>, << >>)

Started == StartedWith([ f \in FileIds |-> OldAge(f) ])

\* The plugin and the vault after onload, the first time.
Loaded == Started /\ disk = NoSnapshot

Init ==
    /\ Loaded
    /\ budget = [ events |-> MaxEvents, commands |-> MaxCommands, restarts |-> MaxRestarts,
                 queries |-> 0 ]

UseEvent == budget' = [ budget EXCEPT !.events = @ - 1 ]

UseCommand == budget' = [ budget EXCEPT !.commands = @ - 1 ]

----------------------------------------------------------------------------
(* Vault events and their handlers (main.ts onload) *)

\* debouncedIndexNote(file) up to setTimeout.
DebouncedIndexNote(path) ==
    /\ pendingIndexFiles' = PendingAdd(pendingIndexFiles, path)
    /\ indexDebounceTimer' = TRUE

\* The user edits a note; vault.on('modify').
Modify(f, c) ==
    /\ budget.events > 0
    /\ vault[f].exists
    /\ c # vault[f].content
    /\ vault' = [ vault EXCEPT ![f].content = c, ![f].age = FreshAge ]
    /\ DebouncedIndexNote(vault[f].path)
    /\ lastOp' = Op("modify", << vault[f].path >>, indexDebounceTimer)
    /\ hist' = [ hist EXCEPT !.burst = @ \cup {f}, !.deleted = @ \ {vault[f].path} ]
    /\ UseEvent
    /\ UNCHANGED << engine, settings, resurfacer, tasks, disk, licenseManager >>

\* The user deletes a note; vault.on('delete').
Delete(f) ==
    /\ budget.events > 0
    /\ vault[f].exists
    /\ vault' = [ vault EXCEPT ![f].exists = FALSE ]
    /\ engine' = removeNote(engine, vault[f].path)
    /\ lastOp' = Op("removeNote", << vault[f].path >>, MapHas(engine.tfMaps, vault[f].path))
    /\ hist' = [ hist EXCEPT !.deleted = @ \cup {vault[f].path} ]
    /\ UseEvent
    /\ UNCHANGED << settings, resurfacer, pendingIndexFiles, indexDebounceTimer, tasks, disk, licenseManager >>

\* The user renames a note; vault.on('rename').
Rename(f, p) ==
    /\ budget.events > 0
    /\ vault[f].exists
    /\ getAbstractFileByPath(vault, p) = NoFile
    /\ vault' = [ vault EXCEPT ![f].path = p ]
    /\ engine' = removeNote(engine, vault[f].path)
    /\ DebouncedIndexNote(p)
    /\ lastOp' = Op("rename", << vault[f].path, p >>, indexDebounceTimer)
    /\ hist' = [ hist EXCEPT
                  !.burst = @ \cup {f},
                  !.deleted = @ \ {p},
                  !.renamed = IF engine.indexReady
                              THEN @ \cup { [ file |-> f, from |-> vault[f].path ] }
                              ELSE @ ]
    /\ UseEvent
    /\ UNCHANGED << settings, resurfacer, tasks, disk, licenseManager >>

\* A new note appears; the plugin listens to no 'create' event.
Create(f, p) ==
    /\ budget.events > 0
    /\ vault[f] = AbsentFile
    /\ \A g \in FileIds : g < f => vault[g] # AbsentFile
    /\ getAbstractFileByPath(vault, p) = NoFile
    /\ vault' = [ vault EXCEPT ![f] = [ exists |-> TRUE, path |-> p,
                                        content |-> InitialContent(f), age |-> FreshAge ] ]
    /\ lastOp' = Op("create", << p >>, << >>)
    /\ UseEvent
    /\ UNCHANGED << engine, settings, resurfacer, pendingIndexFiles, indexDebounceTimer, tasks, disk, hist,
                    licenseManager >>

----------------------------------------------------------------------------
(* Commands *)

\* The "Reindex vault" command: reindexVault() up to its first await.
ReindexCommand ==
    /\ budget.commands > 0
    /\ Len(tasks) < MaxTasks
    /\ LET r == CallIndexVault("reindex", engine, vault)
       IN  /\ engine' = r.engine
           /\ tasks' = Append(tasks, r.task)
           /\ lastOp' = Op(r.op, << >>, << >>)
    /\ UseCommand
    /\ UNCHANGED << vault, settings, resurfacer, pendingIndexFiles, indexDebounceTimer, disk, hist,
                    licenseManager >>

\* The settings tab adds (push on the array the engine shares) or removes
\* (filter into a new array) an excluded folder and calls
\* saveSettingsAndReindex(), which first awaits saveData.
ChangeExcludedFolders(folder) ==
    /\ budget.commands > 0
    /\ Len(tasks) < MaxTasks
    /\ IF folder \in settings.excludedFolders
       THEN /\ settings' = [ settings EXCEPT !.excludedFolders = @ \ {folder} ]
            /\ engine' = engine
       ELSE /\ settings' = [ settings EXCEPT !.excludedFolders = @ \cup {folder} ]
            /\ engine' = [ engine EXCEPT !.excludedFolders = @ \cup {folder} ]
    /\ tasks' = Append(tasks, Task("settings", "saveData"))
    /\ lastOp' = Op("changeSettings", << folder >>, << >>)
    /\ UseCommand
    /\ UNCHANGED << vault, resurfacer, pendingIndexFiles, indexDebounceTimer, disk, hist, licenseManager >>

\* saveSettingsAndReindex after saveData: setExcludedFolders, and a rebuild
\* when the engine is ready.
ResumeSaveData(k) ==
    /\ k \in DOMAIN tasks
    /\ tasks[k].pc = "saveData"
    /\ LET e1 == setExcludedFolders(engine, settings.excludedFolders)
       IN  IF isReady(e1)
           THEN LET r == CallIndexVault("settings", e1, vault)
                IN  /\ engine' = r.engine
                    /\ tasks' = [ tasks EXCEPT ![k] = r.task ]
                    /\ lastOp' = Op(r.op, << >>, << >>)
           ELSE /\ engine' = e1
                /\ tasks' = RemoveAt(tasks, k)
                /\ lastOp' = Op("settingsSaved", << >>, << >>)
    /\ UNCHANGED << vault, settings, resurfacer, pendingIndexFiles, indexDebounceTimer, disk, hist, budget,
                    licenseManager >>

----------------------------------------------------------------------------
(* Resumptions of suspended calls *)

\* initializeIndex after loadIndex: a valid snapshot is restored, otherwise
\* indexVault is called.
ResumeLoadIndex(k) ==
    /\ k \in DOMAIN tasks
    /\ tasks[k].pc = "load"
    /\ IF loadIndexOk(disk)
       THEN /\ engine' = loadIndexApply(engine, disk)
            /\ tasks' = RemoveAt(tasks, k)
            /\ hist' = [ hist EXCEPT !.loaded = TRUE ]
            /\ lastOp' = Op("loadIndex", << TRUE >>, engine')
       ELSE LET e1 == loadIndexFail(engine, disk)
                r  == CallIndexVault(tasks[k].kind, e1, vault)
            IN  /\ engine' = r.engine
                /\ tasks' = [ tasks EXCEPT ![k] = r.task ]
                /\ hist' = hist
                /\ lastOp' = Op(r.op, << "loadIndex", FALSE >>, e1)
    /\ UNCHANGED << vault, settings, resurfacer, pendingIndexFiles, indexDebounceTimer, disk, budget,
                    licenseManager >>

\* indexVault resumed from cachedRead.
ResumeRead(k) ==
    /\ k \in DOMAIN tasks
    /\ tasks[k].pc = "read"
    /\ LET r == ResumeIndexVault(tasks[k], engine, vault)
       IN  /\ engine' = r.engine
           /\ tasks' = IF r.task = << >> THEN RemoveAt(tasks, k)
                       ELSE [ tasks EXCEPT ![k] = r.task[1] ]
           /\ hist' = IF r.op = "indexVaultDone" THEN [ hist EXCEPT !.built = TRUE ] ELSE hist
           /\ lastOp' = Op(r.op, << >>, << >>)
    /\ UNCHANGED << vault, settings, resurfacer, pendingIndexFiles, indexDebounceTimer, disk, budget,
                    licenseManager >>

\* saveIndex resumed: adapter.write(path, json).
ResumeWrite(k) ==
    /\ k \in DOMAIN tasks
    /\ tasks[k].pc = "write"
    /\ disk' = tasks[k].json
    /\ hist' = [ hist EXCEPT !.saved = tasks[k].saved ]
    /\ tasks' = RemoveAt(tasks, k)
    /\ lastOp' = Op("saveIndex", << >>, << >>)
    /\ UNCHANGED << vault, engine, settings, resurfacer, pendingIndexFiles, indexDebounceTimer, budget,
                    licenseManager >>

\* The timer callback has run its loop up to `r`: it is suspended in
\* indexNote, or it has cleared the pending set.
TimerCallbackAt(r, others, done) ==
    IF r.at = 0
    THEN /\ pendingIndexFiles' = << >>
         /\ tasks' = ClearedIterators(others)
         /\ lastOp' = Op(done, << >>, [ finished |-> TRUE, calls |-> r.calls ])
    ELSE LET f == getAbstractFileByPath(vault, pendingIndexFiles[r.at])
         IN  /\ pendingIndexFiles' = pendingIndexFiles
             /\ tasks' = Append(others,
                    [ Task("timer", "noteRead") EXCEPT
                        !.f = f, !.content = vault[f].content,
                        !.next = r.at + 1, !.calls = r.calls ])
             /\ lastOp' = Op(done, << >>, [ finished |-> FALSE, calls |-> r.calls ])

\* The debounce timer fires (main.ts 530-539).
TimerFire ==
    /\ indexDebounceTimer
    /\ Len(tasks) < MaxTasks
    /\ indexDebounceTimer' = FALSE
    /\ TimerCallbackAt(RunPendingLoop(engine, vault, pendingIndexFiles, 1, << >>),
                       tasks, "timerFire")
    /\ hist' = [ hist EXCEPT !.burst = {} ]
    /\ UNCHANGED << vault, engine, settings, resurfacer, disk, budget, licenseManager >>

\* indexNote resumed from cachedRead; the callback's loop goes on.
ResumeIndexNote(k) ==
    /\ k \in DOMAIN tasks
    /\ tasks[k].pc = "noteRead"
    /\ engine' = indexNoteApply(engine, vault[tasks[k].f].path, tasks[k].content)
    /\ TimerCallbackAt(RunPendingLoop(engine', vault, pendingIndexFiles,
                                      tasks[k].next, tasks[k].calls),
                       RemoveAt(tasks, k), "indexNote")
    /\ UNCHANGED << vault, settings, resurfacer, indexDebounceTimer, disk, hist, budget, licenseManager >>

\* The application is closed and opened again: onunload clears the timers
\* and calls saveIndex without awaiting it (the write may not happen); what
\* was suspended is gone; onload builds a new engine and initializeIndex
\* calls loadIndex.
RestartAfter(written, elapsed, response) ==
    LET cached == AgedStatus(settings.licenseStatus, elapsed)
    IN  /\ budget.restarts > 0
        /\ disk' = IF written THEN saveIndexData(engine) ELSE disk
        /\ settings' = [ settings EXCEPT !.licenseStatus = cached ]
        /\ licenseManager' = [ status |-> validate(settings.licenseKey, cached, response) ]
        /\ engine' = NewEngine(settings.excludedFolders)
        /\ resurfacer' = NewResurfacer(settings.minDaysOld)
        /\ pendingIndexFiles' = << >>
        /\ indexDebounceTimer' = FALSE
        /\ tasks' = << Task("init", "load") >>
        /\ hist' = [ NewHist EXCEPT
                       !.saved = IF written THEN SavedOf(engine) ELSE hist.saved,
                       !.revoked = RevokedAfter(hist.revoked, settings.licenseKey, cached, response) ]
        /\ lastOp' = Op("onload", << >>, << >>)
        /\ budget' = [ budget EXCEPT !.restarts = @ - 1 ]
        /\ UNCHANGED vault

\* Without a key onload's validate returns before it looks at the cached
\* status or asks the API.
Restart(written) ==
    \E elapsed \in ElapsedDays, response \in ApiResponses :
        /\ settings.licenseKey = NoKey => (elapsed = 0 /\ response = Unreachable)
        /\ RestartAfter(written, elapsed, response)

\* The settings tab's Activate button (shown when isPro() is false).
ActivateLicense(key, response) ==
    LET status == validate(key, NullStatus, response)
    IN  /\ budget.commands > 0
        /\ ~ isPro(licenseManager)
        /\ licenseManager' = [ status |-> status ]
        /\ settings' = [ settings EXCEPT
                           !.licenseKey = IF status.valid THEN key ELSE NoKey,
                           !.licenseStatus = status ]
        /\ hist' = [ hist EXCEPT !.revoked = RevokedAfter(@, key, NullStatus, response) ]
        /\ lastOp' = Op("activateLicense", << key >>, status)
        /\ budget' = [ budget EXCEPT !.commands = @ - 1 ]
        /\ UNCHANGED << vault, engine, resurfacer, pendingIndexFiles, indexDebounceTimer,
                        tasks, disk >>

\* The settings tab's Deactivate button (shown when isPro() is true).
DeactivateLicense ==
    /\ budget.commands > 0
    /\ isPro(licenseManager)
    /\ settings' = [ settings EXCEPT !.licenseKey = NoKey, !.licenseStatus = NullStatus ]
    /\ licenseManager' = [ status |-> validate(NoKey, NullStatus, Unreachable) ]
    /\ lastOp' = Op("deactivateLicense", << >>, << >>)
    /\ budget' = [ budget EXCEPT !.commands = @ - 1 ]
    /\ UNCHANGED << vault, engine, resurfacer, pendingIndexFiles, indexDebounceTimer,
                    tasks, disk, hist >>

\* Values the user moves the "Minimum note age" slider to (limits 1 .. 90).
MinDaysOldChoices == {1, 30}

\* The settings tab's slider for minDaysOld: onChange assigns the setting and
\* calls saveSettingsOnly, which only saves the settings.
ChangeMinDaysOld(value) ==
    /\ budget.commands > 0
    /\ value # settings.minDaysOld
    /\ settings' = [ settings EXCEPT !.minDaysOld = value ]
    /\ lastOp' = Op("saveSettingsOnly", << value >>, << >>)
    /\ budget' = [ budget EXCEPT !.commands = @ - 1 ]
    /\ UNCHANGED << vault, engine, resurfacer, pendingIndexFiles, indexDebounceTimer,
                    tasks, disk, hist, licenseManager >>

----------------------------------------------------------------------------
(* Queries of the views *)

\* topK and count arguments of the queries
TopKs == {0, 1, 2, 20}

Counts == {1, 3}

\* What a query leaves alone: everything the plugin holds.
Unchanged ==
    /\ budget.queries > 0
    /\ budget' = [ budget EXCEPT !.queries = @ - 1 ]
    /\ UNCHANGED << vault, engine, settings, resurfacer, pendingIndexFiles,
                    indexDebounceTimer, tasks, disk, hist, licenseManager >>

QueryFindSimilar(f, topK) ==
    /\ vault[f].exists
    /\ lastOp' = Op("findSimilar", << f, topK >>, findSimilar(engine, vault, f, topK))
    /\ Unchanged

QueryDailyDigest(count) ==
    /\ lastOp' = Op("getDailyDigest", << count >>, getDailyDigest(resurfacer, engine, vault, count))
    /\ Unchanged

QueryContextualSuggestions(f, count) ==
    /\ vault[f].exists
    /\ lastOp' = Op("getContextualSuggestions", << f, count >>,
                    getContextualSuggestions(resurfacer, engine, vault, f, count))
    /\ Unchanged

----------------------------------------------------------------------------
Next ==
    \/ \E f \in FileIds, c \in Edits : Modify(f, c)
    \/ \E f \in FileIds : Delete(f)
    \/ \E f \in FileIds, p \in Paths : Rename(f, p)
    \/ \E f \in FileIds, p \in Paths : Create(f, p)
    \/ ReindexCommand
    \/ \E folder \in Folders : ChangeExcludedFolders(folder)
    \/ \E k \in 1 .. MaxTasks : ResumeSaveData(k)
    \/ \E k \in 1 .. MaxTasks : ResumeLoadIndex(k)
    \/ \E k \in 1 .. MaxTasks : ResumeRead(k)
    \/ \E k \in 1 .. MaxTasks : ResumeWrite(k)
    \/ TimerFire
    \/ \E k \in 1 .. MaxTasks : ResumeIndexNote(k)
    \/ \E written \in BOOLEAN : Restart(written)

Spec == Init /\ [][Next]_vars

\* Runs in which the user only edits and renames notes.
InitEdit ==
    /\ Loaded
    /\ budget = [ events |-> MaxEdits, commands |-> 0, restarts |-> 0, queries |-> 0 ]

NextEdit ==
    \/ \E f \in FileIds, c \in Edits : Modify(f, c)
    \/ \E f \in FileIds, p \in Paths : Rename(f, p)
    \/ \E k \in 1 .. MaxTasks : ResumeLoadIndex(k)
    \/ \E k \in 1 .. MaxTasks : ResumeRead(k)
    \/ \E k \in 1 .. MaxTasks : ResumeWrite(k)
    \/ TimerFire
    \/ \E k \in 1 .. MaxTasks : ResumeIndexNote(k)

SpecEdit == InitEdit /\ [][NextEdit]_vars

\* Runs with the queries of the views.
InitQuery ==
    /\ Loaded
    /\ budget = [ events |-> MaxQueryEvents, commands |-> 0, restarts |-> 0,
                 queries |-> MaxQueries ]

NextQuery ==
    \/ \E f \in FileIds, c \in Edits : Modify(f, c)
    \/ \E f \in FileIds : Delete(f)
    \/ \E f \in FileIds, p \in Paths : Rename(f, p)
    \/ \E f \in FileIds, p \in Paths : Create(f, p)
    \/ \E k \in 1 .. MaxTasks : ResumeLoadIndex(k)
    \/ \E k \in 1 .. MaxTasks : ResumeRead(k)
    \/ \E k \in 1 .. MaxTasks : ResumeWrite(k)
    \/ TimerFire
    \/ \E k \in 1 .. MaxTasks : ResumeIndexNote(k)
    \/ \E f \in FileIds, topK \in TopKs : QueryFindSimilar(f, topK)
    \/ \E count \in Counts : QueryDailyDigest(count)
    \/ \E f \in FileIds, count \in Counts : QueryContextualSuggestions(f, count)

SpecQuery == InitQuery /\ [][NextQuery]_vars

\* Runs in which the user moves the minimum-age slider and the views query.
InitSettings ==
    /\ Loaded
    /\ budget = [ events |-> MaxSettingsEvents, commands |-> MaxSettingsChanges,
                 restarts |-> 0, queries |-> MaxQueries ]

NextSettings ==
    \/ \E f \in FileIds, c \in Edits : Modify(f, c)
    \/ \E value \in MinDaysOldChoices : ChangeMinDaysOld(value)
    \/ \E k \in 1 .. MaxTasks : ResumeLoadIndex(k)
    \/ \E k \in 1 .. MaxTasks : ResumeRead(k)
    \/ \E k \in 1 .. MaxTasks : ResumeWrite(k)
    \/ TimerFire
    \/ \E k \in 1 .. MaxTasks : ResumeIndexNote(k)
    \/ \E count \in Counts : QueryDailyDigest(count)
    \/ \E f \in FileIds, count \in Counts : QueryContextualSuggestions(f, count)

SpecSettings == InitSettings /\ [][NextSettings]_vars

\* Runs of the daily digest over vaults with notes of several ages: days
\* since the modification of the notes 1 .. 4.
AgeProfile(p) ==
    CASE p = 1 -> [ f \in FileIds |-> OldAge(f) ]
      [] p = 2 -> << 1, 10, 2, 10 >>
      [] p = 3 -> << 10, 1, 40, 10 >>
      [] p = 4 -> << 1, 40, 40, 10 >>
      [] OTHER -> << 5, 40, 10, 40 >>

AgeProfiles == 1 .. 5

InitDigest ==
    /\ \E p \in AgeProfiles : StartedWith(AgeProfile(p))
    /\ disk = NoSnapshot
    /\ budget = [ events |-> MaxDigestEvents, commands |-> 0, restarts |-> 0,
                 queries |-> MaxQueries ]

NextDigest ==
    \/ \E f \in FileIds, c \in Edits : Modify(f, c)
    \/ \E k \in 1 .. MaxTasks : ResumeLoadIndex(k)
    \/ \E k \in 1 .. MaxTasks : ResumeRead(k)
    \/ \E k \in 1 .. MaxTasks : ResumeWrite(k)
    \/ TimerFire
    \/ \E k \in 1 .. MaxTasks : ResumeIndexNote(k)
    \/ \E count \in Counts : QueryDailyDigest(count)

SpecDigest == InitDigest /\ [][NextDigest]_vars

\* Runs in which tokenize is applied to texts of one or two words.
SampleWords ==
    << <<"m","e","e","t","i","n","g","s">>, <<"R","u","n","n","i","n","g">>, <<"t","h","e">>,
       <<"n","o","t","e","s">>, <<"a","b","o","u","t","e","d">>, <<"i","d","e","a","s">>,
       <<"c","a","t">>, <<"x","1","y">>, <<"i","t","'","s">>, <<"r","e","a","d","i","n","g">>,
       <<"a","_","b">>, <<"h","a","p","p","i","n","e","s","s">> >>

Separators == { << " " >>, << ",", " " >>, << "7" >> }

TokenizeText(text) ==
    /\ budget.queries > 0
    /\ lastOp' = Op("tokenize", text, tokenize(text))
    /\ budget' = [ budget EXCEPT !.queries = @ - 1 ]
    /\ UNCHANGED << vault, engine, settings, resurfacer, pendingIndexFiles,
                    indexDebounceTimer, tasks, disk, hist, licenseManager >>

InitTokenize ==
    /\ Loaded
    /\ budget = [ events |-> 0, commands |-> 0, restarts |-> 0, queries |-> MaxQueries ]

NextTokenize ==
    \E i, j \in DOMAIN SampleWords, sep \in Separators :
        TokenizeText(SampleWords[i] \o sep \o SampleWords[j])

SpecTokenize == InitTokenize /\ [][NextTokenize]_vars

\* Runs that start with the index.json an earlier session wrote when the
\* vault held the four initial notes; notes may have been deleted since.
PreviousSnapshot ==
    saveIndexData(indexVaultFinish(
        [ NewEngine({}) EXCEPT
            !.tfMaps = [ f \in FileIds |-> << InitialPath(f), computeTF(InitialContent(f)) >> ] ]))

InitStale ==
    /\ Started
    /\ disk = PreviousSnapshot
    /\ budget = [ events |-> MaxStaleEvents, commands |-> 0, restarts |-> 0,
                 queries |-> MaxQueries ]

NextStale ==
    \/ \E f \in FileIds, c \in Edits : Modify(f, c)
    \/ \E k \in 1 .. MaxTasks : ResumeLoadIndex(k)
    \/ TimerFire
    \/ \E k \in 1 .. MaxTasks : ResumeIndexNote(k)
    \/ \E f \in FileIds, topK \in TopKs : QueryFindSimilar(f, topK)

SpecStale == InitStale /\ [][NextStale]_vars

\* Runs of the license: activation, deactivation, and starts of the
\* application on later days.
MaxLicenseCommands == 2

MaxLicenseRestarts == 2

InitLicense ==
    /\ Loaded
    /\ budget = [ events |-> 0, commands |-> MaxLicenseCommands,
                 restarts |-> MaxLicenseRestarts, queries |-> 0 ]

NextLicense ==
    \/ \E key \in LicenseKeys, response \in ApiResponses : ActivateLicense(key, response)
    \/ DeactivateLicense
    \/ \E written \in BOOLEAN : Restart(written)

SpecLicense == InitLicense /\ [][NextLicense]_vars

\* Edits of a vault whose index is restored from the snapshot of the earlier
\* session, with an event loop that does not stop while a timer is due or an
\* awaited promise has settled.
InitDebounce ==
    /\ Started
    /\ disk = PreviousSnapshot
    /\ budget = [ events |-> MaxEdits, commands |-> 0, restarts |-> 0, queries |-> 0 ]

EventLoopStep ==
    \/ \E k \in 1 .. MaxTasks : ResumeLoadIndex(k)
    \/ TimerFire
    \/ \E k \in 1 .. MaxTasks : ResumeIndexNote(k)

NextDebounce ==
    \/ \E f \in FileIds, c \in Edits : Modify(f, c)
    \/ EventLoopStep

SpecDebounce == InitDebounce /\ [][NextDebounce]_vars /\ WF_vars(EventLoopStep)

\* Runs that start with an index.json the plugin did not write.
FoundSnapshot(n) ==
    CASE n = 1 -> NoSnapshot
      [] n = 2 -> Snapshot("unreadable", JUndefined, JUndefined)
      [] n = 3 -> Snapshot("invalid", JUndefined, JUndefined)
      [] n = 4 -> Snapshot("data", JUndefined, JUndefined)
      [] n = 5 -> Snapshot("data",
                           JObject(<< << "a.md", JObject(<< << "x", <<1, 1>> >> >>) >>,
                                      << "b.md", JNull >> >>),
                           JObject(<< >>))
      [] n = 6 -> Snapshot("data",
                           JObject(<< << "a.md", JObject(<< << "x", <<1, 1>> >> >>) >> >>),
                           JNull)
      [] n = 7 -> Snapshot("data", JNumber, JNumber)
      [] n = 8 -> Snapshot("data", JObject(<< << "a.md", JNumber >> >>), JObject(<< >>))
      [] OTHER -> Snapshot("data",
                           JObject(<< << "a.md", JObject(<< << "x", <<1, 1>> >> >>) >>,
                                      << "b.md", JObject(<< << "x", <<1, 2>> >>,
                                                            << "y", <<1, 2>> >> >>) >> >>),
                           JObject(<< << "x", <<2, 3>> >>, << "y", <<1, 1>> >> >>))

FoundSnapshots == 1 .. 9

InitLoad ==
    /\ Started
    /\ \E n \in FoundSnapshots : disk = FoundSnapshot(n)
    /\ budget = [ events |-> MaxLoadEvents, commands |-> 0, restarts |-> 0, queries |-> 0 ]

NextLoad ==
    \/ \E f \in FileIds, c \in Edits : Modify(f, c)
    \/ \E f \in FileIds : Delete(f)
    \/ \E k \in 1 .. MaxTasks : ResumeLoadIndex(k)
    \/ \E k \in 1 .. MaxTasks : ResumeRead(k)
    \/ \E k \in 1 .. MaxTasks : ResumeWrite(k)
    \/ TimerFire
    \/ \E k \in 1 .. MaxTasks : ResumeIndexNote(k)

SpecLoad == InitLoad /\ [][NextLoad]_vars

----------------------------------------------------------------------------
(* Properties *)

IndexFields(e) == << e.tfMaps, e.idf, e.tfidfVectors, e.indexReady >>

\* C1 as stated: in every state where isReady() is true, an indexVault over
\* at least one document has run to completion on this engine.
C1_ReadyOnlyByBuild == engine.indexReady => hist.built

\* C1, amended: in every state where isReady() is true, an indexVault over at
\* least one document has completed on this engine or a loadIndex on it has
\* returned true.
C1_ReadyByBuildOrLoad == engine.indexReady => (hist.built \/ hist.loaded)

\* The engine is ready through loadIndex of a snapshot without documents,
\* no build having succeeded.
C1_Witness ==
    /\ engine.indexReady
    /\ hist.loaded
    /\ ~ hist.built
    /\ engine.tfMaps = EmptyMap

\* C2: once isReady() is true of an engine it stays true after every
\* operation on that engine (onload makes a new engine).
C2_ReadyIsSticky ==
    [][ (engine.indexReady /\ lastOp'.op # "onload") => engine'.indexReady ]_vars

\* A ready engine has gone through an indexVault that found no documents.
C2_Witness == engine.indexReady /\ lastOp.op = "indexVaultEmpty"

\* C3 as stated: in every state, every path with a TF vector has a TF-IDF
\* vector.
C3_EveryTfHasVector == MapKeys(engine.tfMaps) \subseteq MapKeys(engine.tfidfVectors)

\* C4 as stated: in every state of a ready engine the idf table is
\* computeIDF of the current tfMaps.
C4_IdfIsCurrent ==
    engine.indexReady => engine.idf = computeIDF(MapValues(engine.tfMaps))

\* C4, amended: when an indexVault over at least one document or an
\* indexNote has just completed, the idf table is computeIDF of the current
\* tfMaps.
C4_IdfCurrentAfterIndexing ==
    lastOp.op \in {"indexVaultDone", "indexNote"} =>
        engine.idf = computeIDF(MapValues(engine.tfMaps))

\* An indexNote has just completed on an index of several documents.
C4_Witness ==
    /\ lastOp.op = "indexNote"
    /\ Len(engine.tfMaps) >= 2
    /\ engine.idf # << >>

\* C5: indexNote on an engine that is not ready returns without suspending
\* and leaves tfMaps, idf, tfidfVectors and the ready flag as they were.
C5_IndexNoteNoOpWhenNotReady ==
    [][ (~ engine.indexReady /\ lastOp'.op \in {"timerFire", "indexNote"}) =>
            /\ IndexFields(engine') = IndexFields(engine)
            /\ lastOp'.ret.finished
            /\ \A k \in DOMAIN tasks' : tasks'[k].pc # "noteRead" ]_vars

\* The timer callback has called indexNote on an engine that is not ready.
C5_Witness ==
    /\ lastOp.op = "timerFire"
    /\ lastOp.ret.calls # << >>
    /\ ~ engine.indexReady

\* C6 as stated: when an indexVault that found no documents returns, the
\* engine is not ready.
C6_EmptyBuildNotReady == lastOp.op = "indexVaultEmpty" => ~ engine.indexReady

\* C6, amended: an indexVault that finds no documents leaves the ready flag
\* and the index as they were.
C6_EmptyBuildChangesNothing ==
    [][ lastOp'.op = "indexVaultEmpty" => IndexFields(engine') = IndexFields(engine) ]_vars

\* An indexVault that found no documents has returned on a ready engine.
C6_Witness ==
    /\ lastOp.op = "indexVaultEmpty"
    /\ engine.indexReady
    /\ engine.tfMaps # EmptyMap

\* C7: removeNote(p) leaves no TF and no TF-IDF vector for p and changes
\* neither the idf table, nor the ready flag, nor the vectors of any other path.
C7_RemoveNoteFrame ==
    [][ lastOp'.op \in {"removeNote", "rename"} =>
          LET p == lastOp'.arg[1]
          IN  /\ ~ MapHas(engine'.tfMaps, p)
              /\ ~ MapHas(engine'.tfidfVectors, p)
              /\ engine'.idf = engine.idf
              /\ engine'.indexReady = engine.indexReady
              /\ \A q \in Paths \ {p} :
                   /\ MapHas(engine'.tfMaps, q) = MapHas(engine.tfMaps, q)
                   /\ MapHas(engine.tfMaps, q) =>
                        MapGet(engine'.tfMaps, q) = MapGet(engine.tfMaps, q)
                   /\ MapHas(engine'.tfidfVectors, q) = MapHas(engine.tfidfVectors, q)
                   /\ MapHas(engine.tfidfVectors, q) =>
                        MapGet(engine'.tfidfVectors, q) = MapGet(engine.tfidfVectors, q) ]_vars

\* removeNote has removed an indexed note from a ready engine that keeps
\* other notes.
C7_Witness ==
    /\ lastOp.op = "removeNote"
    /\ lastOp.ret = TRUE
    /\ engine.indexReady
    /\ engine.tfidfVectors # EmptyMap

\* C8: the list findSimilar returns has no entry for the queried note, no
\* entry of similarity <= 0.01, at most topK entries, and similarities that
\* do not increase.
C8_FindSimilarResult ==
    lastOp.op = "findSimilar" =>
        LET f    == lastOp.arg[1]
            topK == lastOp.arg[2]
            ret  == lastOp.ret
        IN  /\ \A i \in DOMAIN ret : ret[i].file # f /\ vault[ret[i].file].path # vault[f].path
            /\ \A i \in DOMAIN ret : ret[i].similarity > NoiseFloor
            /\ Len(ret) <= topK
            /\ \A i, j \in DOMAIN ret : i < j => ret[i].similarity >= ret[j].similarity

\* findSimilar has returned two notes of different similarity.
C8_Witness ==
    /\ lastOp.op = "findSimilar"
    /\ Len(lastOp.ret) >= 2
    /\ lastOp.ret[1].similarity > lastOp.ret[2].similarity

\* C9: findSimilar returns the empty list when the engine is not ready or
\* the queried path has no TF-IDF vector, getDailyDigest and
\* getContextualSuggestions return it when the engine is not ready, and none
\* of the three changes the engine.
C9_QueriesOnUnusableState ==
    [][ /\ lastOp'.op \in {"findSimilar", "getDailyDigest", "getContextualSuggestions"} =>
            engine' = engine
        /\ ( /\ lastOp'.op = "findSimilar"
             /\ ~ engine.indexReady \/ ~ MapHas(engine.tfidfVectors, vault[lastOp'.arg[1]].path) )
           => lastOp'.ret = << >>
        /\ ( /\ lastOp'.op \in {"getDailyDigest", "getContextualSuggestions"}
             /\ ~ engine.indexReady )
           => lastOp'.ret = << >> ]_vars

\* The digest was asked of an engine that is not ready, in a vault with
\* notes old enough to be resurfaced.
C9_Witness ==
    /\ lastOp.op = "getDailyDigest"
    /\ ~ engine.indexReady
    /\ lastOp.ret = << >>
    /\ digestOfReadyEngine(resurfacer, engine, vault, lastOp.arg[1]) # << >>

\* C10 as stated: when the debounce timer fires, every note that had a
\* change event since the previous firing and still exists is handed to
\* indexNote by this firing: already called, or ahead in the pending set the
\* callback is iterating over.
C10_FiringIndexesTheBurst ==
    [][ lastOp'.op = "timerFire" =>
          LET called == { lastOp'.ret.calls[j] : j \in DOMAIN lastOp'.ret.calls }
              ahead  == IF lastOp'.ret.finished THEN {}
                        ELSE { pendingIndexFiles'[j] :
                                 j \in tasks'[Len(tasks')].next .. Len(pendingIndexFiles') }
          IN  \A f \in hist.burst :
                vault[f].exists => vault[f].path \in called \cup ahead ]_vars

\* C11 as stated: no indexNote changes the index while an indexVault call is
\* in flight (suspended on a file read between its start and its completion).
C11_NoUpsertDuringRebuild ==
    [][ (lastOp'.op = "indexNote" /\ IndexFields(engine') # IndexFields(engine)) =>
            \A k \in DOMAIN tasks : tasks[k].pc # "read" ]_vars

\* C12: a loadIndex that returns true restores the tfMaps and the idf table
\* the snapshot on disk was made of, and gives every restored document the
\* TF-IDF vector computeTFIDF(its restored TF vector, the restored idf table),
\* and no other vector.
C12_SnapshotRoundTrip ==
    [][ lastOp'.op = "loadIndex" =>
          /\ engine'.tfMaps = hist.saved.tfMaps
          /\ engine'.idf = hist.saved.idf
          /\ MapKeySeq(engine'.tfidfVectors) = MapKeySeq(engine'.tfMaps)
          /\ \A i \in DOMAIN engine'.tfMaps :
               engine'.tfidfVectors[i][2] = computeTFIDF(engine'.tfMaps[i][2], engine'.idf) ]_vars

\* A snapshot of several documents has been restored, with a TF-IDF vector
\* that is not empty.
C12_Witness ==
    /\ lastOp.op = "loadIndex"
    /\ Len(engine.tfMaps) >= 2
    /\ \E i \in DOMAIN engine.tfidfVectors : DOMAIN engine.tfidfVectors[i][2] # {}

\* index.json holds a NoteIndex: an object whose tfMaps is an object of
\* objects and whose idf is an object.
NoteIndexShape(d) ==
    /\ d.kind = "data"
    /\ d.tfMaps.type = "object"
    /\ \A i \in DOMAIN d.tfMaps.entries : d.tfMaps.entries[i][2].type = "object"
    /\ d.idf.type = "object"

\* C13 as stated: loadIndex returns true and makes the engine ready only for
\* a snapshot of the right shape; for a missing, unreadable or unparsable file
\* and for JSON of the wrong shape it returns false and leaves the engine not
\* ready.
C13_WrongShapeReturnsFalse ==
    [][ (lastOp'.op = "loadIndex" \/ (engine'.indexReady /\ ~ engine.indexReady
                                       /\ \E k \in DOMAIN tasks : tasks[k].pc = "load"
                                                                   /\ k \notin DOMAIN tasks'))
          => NoteIndexShape(disk) ]_vars

\* removeNote(path) followed by indexNote of the same note with the given
\* content, both run to completion on engine e.
RemoveThenIndex(e, path, content) == indexNoteApply(removeNote(e, path), path, content)

\* C14 as stated: in every state of a ready engine, for every indexed
\* document with a stored vector, removeNote followed by indexNote with the
\* content it was indexed with leaves the document with the vector that was
\* stored before the removal.
C14_RemoveThenIndexRestores ==
    engine.indexReady =>
        \A i \in DOMAIN engine.tfMaps :
            \A content \in Contents :
                ( /\ computeTF(content) = engine.tfMaps[i][2]
                  /\ MapHas(engine.tfidfVectors, engine.tfMaps[i][1]) ) =>
                    MapGet(RemoveThenIndex(engine, engine.tfMaps[i][1], content).tfidfVectors,
                           engine.tfMaps[i][1])
                      = MapGet(engine.tfidfVectors, engine.tfMaps[i][1])

\* The terms that occur in every document of a non-empty tfMaps.
TermsOfEveryDocument(e) ==
    { t \in { Terms[n] : n \in DOMAIN Terms } :
        /\ e.tfMaps # EmptyMap
        /\ \A i \in DOMAIN e.tfMaps : t \in DOMAIN e.tfMaps[i][2] }

\* C15 as stated: in every state of a ready engine, a term that occurs in
\* every currently indexed document is in no stored TF-IDF vector.
C15_CommonTermsAbsent ==
    engine.indexReady =>
        \A t \in TermsOfEveryDocument(engine) :
            \A j \in DOMAIN engine.tfidfVectors : t \notin DOMAIN engine.tfidfVectors[j][2]

\* The files of the notes a query returned.
ReturnedFiles(ret) == { ret[i].file : i \in DOMAIN ret }

\* C16 as stated: every note that getDailyDigest or getContextualSuggestions
\* returns was last modified at least settings.minDaysOld days before the
\* query, whatever the user has set minDaysOld to.
C16_ReturnedNotesAreOldEnough ==
    lastOp.op \in {"getDailyDigest", "getContextualSuggestions"} =>
        \A f \in ReturnedFiles(lastOp.ret) :
            getDaysSinceModified(vault, f) >= settings.minDaysOld

\* The notes modified within the last 3 days.
RecentNotes(v) == { f \in FileIds : v[f].exists /\ getDaysSinceModified(v, f) < 3 }

\* The similarities of note f in the top-20 findSimilar lists of the anchors.
SimilaritiesTo(e, v, anchors, f) ==
    UNION { { findSimilar(e, v, a, 20)[i].similarity :
                i \in { j \in DOMAIN findSimilar(e, v, a, 20) :
                          findSimilar(e, v, a, 20)[j].file = f } } :
            a \in anchors }

SetMax(S) == CHOOSE m \in S : \A x \in S : x <= m

\* C17: on the anchor path of getDailyDigest (ready engine, some note
\* modified in the last 3 days, at most 10 of them) no note is returned twice,
\* every returned note is in the top-20 findSimilar list of some anchor, and
\* its score is the composite of the relevance of its greatest similarity
\* over those lists, its time decay and its orphan boost.
C17_AnchorPathScores ==
    ( /\ lastOp.op = "getDailyDigest"
      /\ engine.indexReady
      /\ RecentNotes(vault) # {}
      /\ Cardinality(RecentNotes(vault)) <= 10 ) =>
        /\ \A i, j \in DOMAIN lastOp.ret :
             i # j => /\ lastOp.ret[i].file # lastOp.ret[j].file
                      /\ vault[lastOp.ret[i].file].path # vault[lastOp.ret[j].file].path
        /\ \A i \in DOMAIN lastOp.ret :
             /\ SimilaritiesTo(engine, vault, RecentNotes(vault), lastOp.ret[i].file) # {}
             /\ lastOp.ret[i].score =
                  compositeScore(
                      relevanceScore(SetMax(SimilaritiesTo(engine, vault, RecentNotes(vault),
                                                           lastOp.ret[i].file))),
                      timeDecayScore(getDaysSinceModified(vault, lastOp.ret[i].file)),
                      orphanBoost(getBacklinkCount(lastOp.ret[i].file)))

\* A digest has returned a note that is in the findSimilar lists of two
\* anchors with different similarities.
C17_Witness ==
    /\ lastOp.op = "getDailyDigest"
    /\ engine.indexReady
    /\ Cardinality(RecentNotes(vault)) >= 2
    /\ \E i \in DOMAIN lastOp.ret :
         Cardinality(SimilaritiesTo(engine, vault, RecentNotes(vault), lastOp.ret[i].file)) >= 2

\* The notes that are at least minDaysOld days old.
OldEnoughNotes(r, v) ==
    { f \in FileIds : v[f].exists /\ getDaysSinceModified(v, f) >= r.minDaysOld }

\* composite(0.3, staleness, connectivity boost) of note f.
FallbackScore(v, f) ==
    compositeScore(300, timeDecayScore(getDaysSinceModified(v, f)),
                   orphanBoost(getBacklinkCount(f)))

\* C18: getDailyDigest(count) of a ready engine with no note modified in the
\* last 3 days returns min(count, number of notes at least minDaysOld old)
\* different notes, all at least minDaysOld old, each with the score
\* composite(0.3, staleness, boost), in non-increasing order of score, and no
\* old-enough note left out has a greater score than a returned one.
C18_FallbackDigest ==
    ( /\ lastOp.op = "getDailyDigest"
      /\ engine.indexReady
      /\ RecentNotes(vault) = {} ) =>
        /\ Len(lastOp.ret) = Min(lastOp.arg[1], Cardinality(OldEnoughNotes(resurfacer, vault)))
        /\ \A i \in DOMAIN lastOp.ret :
             /\ lastOp.ret[i].file \in OldEnoughNotes(resurfacer, vault)
             /\ lastOp.ret[i].score = FallbackScore(vault, lastOp.ret[i].file)
             /\ \A j \in DOMAIN lastOp.ret :
                  /\ i < j => lastOp.ret[i].score >= lastOp.ret[j].score
                  /\ i # j => lastOp.ret[i].file # lastOp.ret[j].file
             /\ \A f \in OldEnoughNotes(resurfacer, vault) \ ReturnedFiles(lastOp.ret) :
                  FallbackScore(vault, f) <= lastOp.ret[i].score

\* A fallback digest has returned several notes, by different scores, from a
\* vault that also holds a younger note.
C18_Witness ==
    /\ lastOp.op = "getDailyDigest"
    /\ engine.indexReady
    /\ RecentNotes(vault) = {}
    /\ Len(lastOp.ret) >= 2
    /\ lastOp.ret[1].score > lastOp.ret[2].score
    /\ \E f \in FileIds : vault[f].exists /\ f \notin OldEnoughNotes(resurfacer, vault)

\* The relevance a digest of engine e over vault v gives note f: that of its
\* greatest similarity to an anchor, or the base 0.3 when there is no anchor.
DigestRelevance(e, v, f) ==
    IF RecentNotes(v) = {} THEN 300
    ELSE relevanceScore(SetMax(SimilaritiesTo(e, v, RecentNotes(v), f)))

\* C19 as stated: every note a getDailyDigest returns, on either path,
\* carries the reason of the priority relevance > 0.3, staleness > 0.8,
\* boost > 0.5, generic.
C19_ReasonByPriority ==
    (lastOp.op = "getDailyDigest" /\ engine.indexReady) =>
        \A i \in DOMAIN lastOp.ret :
            lastOp.ret[i].reason =
                digestReason(DigestRelevance(engine, vault, lastOp.ret[i].file),
                             timeDecayScore(getDaysSinceModified(vault, lastOp.ret[i].file)),
                             orphanBoost(getBacklinkCount(lastOp.ret[i].file)))

\* The path lies under a folder of the excluded-folder setting.
UnderExcludedFolder(path) == \E folder \in settings.excludedFolders : InFolder(path, folder)

\* No initializeIndex, reindexVault or saveSettingsAndReindex is suspended
\* before the end of its indexVault, and the engine holds the setting.
SettingApplied ==
    /\ \A k \in DOMAIN tasks : tasks[k].pc \notin {"load", "saveData", "read"}
    /\ engine.excludedFolders = settings.excludedFolders

\* C20 as stated: when no rebuild is in flight and the latest change of the
\* excluded folders has been applied, no document under an excluded folder
\* has a TF map or a TF-IDF vector.
C20_ExcludedFoldersSkipped ==
    SettingApplied =>
        \A path \in MapKeys(engine.tfMaps) \cup MapKeys(engine.tfidfVectors) :
            ~ UnderExcludedFolder(path)

\* C21 as stated: tokenizing the tokens of a text, joined by single spaces,
\* yields the same tokens.
C21_TokenizeIdempotent ==
    lastOp.op = "tokenize" => tokenize(JoinTokens(lastOp.ret)) = lastOp.ret

\* What the completion of an indexNote of the note at `path`, with the
\* token list `content`, makes of engine `before`: the TF map of the note,
\* the idf table and the vector of the note are recomputed, every other TF
\* map and vector is as before.
IndexNoteEffect(before, after, path, content) ==
    /\ MapHas(after.tfMaps, path) /\ MapHas(after.tfidfVectors, path)
    /\ MapGet(after.tfMaps, path) = computeTF(content)
    /\ after.idf = computeIDF(MapValues(after.tfMaps))
    /\ MapGet(after.tfidfVectors, path) = computeTFIDF(computeTF(content), after.idf)
    /\ \A q \in Paths \ {path} :
         /\ MapHas(after.tfMaps, q) = MapHas(before.tfMaps, q)
         /\ MapHas(before.tfMaps, q) => MapGet(after.tfMaps, q) = MapGet(before.tfMaps, q)
         /\ MapHas(after.tfidfVectors, q) = MapHas(before.tfidfVectors, q)
         /\ MapHas(before.tfidfVectors, q) =>
              MapGet(after.tfidfVectors, q) = MapGet(before.tfidfVectors, q)

TimerFinished ==
    /\ ~ indexDebounceTimer
    /\ \A k \in DOMAIN tasks : tasks[k].pc \notin {"noteRead", "read", "load", "saveData"}

\* C23 as stated: once the rename of a note was received by a ready engine
\* and the debounce timer has fired and finished, the old path has no TF map
\* and no vector (unless a note is at that path again), and the new path has
\* both, the TF map being that of the note's content.
C23_RenameMovesTheEntry ==
    (TimerFinished /\ engine.indexReady) =>
        \A r \in hist.renamed :
            /\ getAbstractFileByPath(vault, r.from) = NoFile =>
                 /\ ~ MapHas(engine.tfMaps, r.from)
                 /\ ~ MapHas(engine.tfidfVectors, r.from)
            /\ vault[r.file].exists =>
                 /\ MapHas(engine.tfMaps, vault[r.file].path)
                 /\ MapHas(engine.tfidfVectors, vault[r.file].path)
                 /\ MapGet(engine.tfMaps, vault[r.file].path) = computeTF(vault[r.file].content)

\* The indexed paths other than `path` whose vector has a similarity above
\* the noise floor to the vector of `path`.
SimilarPaths(e, path) ==
    { q \in MapKeys(e.tfidfVectors) \ {path} :
        cosineSimilarity(MapGet(e.tfidfVectors, path), MapGet(e.tfidfVectors, q)) > NoiseFloor }

\* C24 as stated: findSimilar(file, topK) on a ready engine that has a vector
\* for the file returns exactly min(topK, number of other indexed documents
\* of similarity > 0.01) entries.
C24_FindSimilarCount ==
    ( /\ lastOp.op = "findSimilar"
      /\ engine.indexReady
      /\ MapHas(engine.tfidfVectors, vault[lastOp.arg[1]].path) ) =>
        Len(lastOp.ret) =
            Min(lastOp.arg[2], Cardinality(SimilarPaths(engine, vault[lastOp.arg[1]].path)))

\* C25 as stated: a path whose delete event was handled by removeNote, and
\* for which no change event has arrived since, has no TF map and no vector.
C25_DeletedStaysOut ==
    \A p \in hist.deleted :
        /\ ~ MapHas(engine.tfMaps, p)
        /\ ~ MapHas(engine.tfidfVectors, p)

\* The index holds the TF map of the note's content as it is now.
IndexedAsIs(e, v, f) ==
    /\ MapHas(e.tfMaps, v[f].path)
    /\ MapGet(e.tfMaps, v[f].path) = computeTF(v[f].content)

\* C26 as stated: on a ready engine every modify event of a note is followed
\* by an indexNote of the note that read the content no earlier than the
\* event; the events being finitely many, the index then comes to hold the
\* content as it is (or the note is gone).
C26_NoChangeLost ==
    \A f \in FileIds :
        ( /\ lastOp.op = "modify"
          /\ engine.indexReady
          /\ vault[f].exists
          /\ lastOp.arg = << vault[f].path >> )
        ~> ( ~ vault[f].exists \/ IndexedAsIs(engine, vault, f) )

\* C27 as stated: whenever loadIndex returns false, tfMaps, idf, tfidfVectors
\* and the ready flag are as they were before the call.
C27_FailedRestoreLeavesEngine ==
    [][ ( /\ lastOp'.op \in {"indexVaultStart", "indexVaultEmpty"}
          /\ lastOp'.arg = << "loadIndex", FALSE >> )
        => IndexFields(lastOp'.ret) = IndexFields(engine) ]_vars

\* The paths of the markdown files of the vault outside the excluded folders.
IndexablePaths(e, v) ==
    { v[getMarkdownFiles(e, v)[i]].path : i \in DOMAIN getMarkdownFiles(e, v) }

\* C28 as stated: when initializeIndex completes (loadIndex has returned
\* true, or the saveIndex after indexVault has written) in a vault with a
\* markdown file outside the excluded folders, the engine is ready and the
\* indexed documents are those files.
C28_StartupIndexMatchesVault ==
    [][ ( /\ \/ lastOp'.op = "loadIndex"
             \/ /\ lastOp'.op = "saveIndex"
                /\ \E k \in DOMAIN tasks :
                     tasks[k].kind = "init" /\ tasks[k].pc = "write" /\ tasks' = RemoveAt(tasks, k)
          /\ IndexablePaths(engine', vault') # {} )
        => /\ engine'.indexReady
           /\ MapKeys(engine'.tfMaps) = IndexablePaths(engine', vault') ]_vars

\* C29 as stated: once the license API has answered that the stored key is
\* not valid, isPro() is false until the API answers that a key is valid.
C29_RevocationSticks == hist.revoked => ~ isPro(licenseManager)

\* Every term of the indexed documents occurs in all of them or in all but one.
EveryTermCommon(e) ==
    \A i \in DOMAIN e.tfMaps : \A t \in DOMAIN e.tfMaps[i][2] :
        DocFreq(MapValues(e.tfMaps), t) >= Len(e.tfMaps) - 1

\* C30: immediately after indexVault completes over N documents, every
\* document has a vector, a term is in the vector of a document exactly when
\* it occurs in the document and in at most N-2 of the N documents; when
\* N <= 2 or every term occurs in N-1 documents or more, every vector is
\* empty and findSimilar returns the empty list for every query.
C30_VectorTermsByDocFreq ==
    lastOp.op = "indexVaultDone" =>
        LET N == Len(engine.tfMaps)
        IN  /\ MapKeys(engine.tfidfVectors) = MapKeys(engine.tfMaps)
            /\ \A i \in DOMAIN engine.tfMaps :
                 DOMAIN MapGet(engine.tfidfVectors, engine.tfMaps[i][1])
                   = { t \in DOMAIN engine.tfMaps[i][2] :
                         DocFreq(MapValues(engine.tfMaps), t) <= N - 2 }
            /\ (N <= 2 \/ EveryTermCommon(engine)) =>
                 /\ \A i \in DOMAIN engine.tfidfVectors : DOMAIN engine.tfidfVectors[i][2] = {}
                 /\ \A f \in FileIds, topK \in TopKs :
                      vault[f].exists => findSimilar(engine, vault, f, topK) = << >>

\* An indexVault has completed over three documents or more, one of which
\* has a term in its vector and a term left out of it.
C30_Witness ==
    /\ lastOp.op = "indexVaultDone"
    /\ Len(engine.tfMaps) >= 3
    /\ \E i \in DOMAIN engine.tfMaps :
         LET vector == MapGet(engine.tfidfVectors, engine.tfMaps[i][1])
         IN  /\ DOMAIN vector # {}
             /\ DOMAIN vector # DOMAIN engine.tfMaps[i][2]

====
